---- MODULE Spec2Model ----
(***************************************************************************)
(* SmartHealthQuote backend-guide/assistant.py: the interactive wizard     *)
(* BackendAssistant.  The model covers the prompt loop (ask_question), the *)
(* eight steps, the step sequencer (run), the plan renderer and the        *)
(* session persister (save_session).                                       *)
(*                                                                         *)
(* Text is a sequence of one-character strings, so that str.strip(), int() *)
(* and the substring test `in` are computed, not assumed.  Python values   *)
(* are tagged records: None, Str(chars), IntVal(n), Dict(items).              *)
(***************************************************************************)
EXTENDS Integers, Sequences, FiniteSets, TLC

VARIABLES
  session_data,  \* self.session_data (a Dict value)
  pc,            \* where run is: "welcome", "step", "continue", "plan", "done"
                 \* ("ask_question" for a stand-alone call of ask_question)
  i,             \* the loop variable of run's for loop (0 before the loop)
  at,            \* the position inside step i: "q1", "q2", "tail", or "" outside a step
  first,         \* the local variable holding a step's first answer (steps 3..8)
  ask,           \* the frame of the active ask_question call, or NoCall
  file,          \* what backend_assistant_session.json holds
  saves,         \* the calls of save_session so far: the write's fault and the message
  plan,          \* what generate_implementation_plan printed, or NotRendered
  outcome,       \* how the run ended ("running" until then)
  errorStep,     \* the step number printed by "Error in step {i}", 0 if none
  escaped,       \* the exception that left run, or NoException
  raised,        \* the exception raised into run from outside, or NoException
  answered,      \* what the continue question just returned (None once the
                 \* next step has read a line)
  stepsRun       \* the indices of the steps called so far, in order

vars == << session_data, pc, i, at, first, ask, file, saves, plan, outcome,
           errorStep, escaped, raised, answered, stepsRun >>

-----------------------------------------------------------------------------
(* Python values *)

None == [type |-> "NoneType"]
Str(chars) == [type |-> "str", chars |-> chars]
IntVal(n) == [type |-> "int", n |-> n]
Dict(items) == [type |-> "dict", items |-> items]

IsStr(v) == v.type = "str"
IsDict(v) == v.type = "dict"

\* d[key] = value on a dict: the key is added when it is new
SetItem(d, key, value) ==
  Dict([k \in (DOMAIN d.items) \cup {key} |-> IF k = key THEN value ELSE d.items[k]])

\* d.get(key, default): the default only when the key is absent
Get(d, key, default) ==
  IF key \in DOMAIN d.items THEN d.items[key] ELSE default

-----------------------------------------------------------------------------
(* Text *)

Digits == <<"0", "1", "2", "3", "4", "5", "6", "7", "8", "9">>
IsDigit(c) == \E d \in 1..10 : Digits[d] = c
DigitVal(c) == (CHOOSE d \in 1..10 : Digits[d] = c) - 1

RECURSIVE LStrip(_)
LStrip(s) == IF s # <<>> /\ Head(s) = " " THEN LStrip(Tail(s)) ELSE s

RECURSIVE RStrip(_)
RStrip(s) ==
  IF s # <<>> /\ s[Len(s)] = " " THEN RStrip(SubSeq(s, 1, Len(s) - 1)) ELSE s

\* str.strip()
Strip(s) == RStrip(LStrip(s))

RECURSIVE DecimalValue(_)
DecimalValue(s) ==
  IF s = <<>> THEN 0
  ELSE 10 * DecimalValue(SubSeq(s, 1, Len(s) - 1)) + DigitVal(s[Len(s)])

\* int(response) on a stripped string: an optional sign and decimal digits,
\* anything else is a ValueError (ok = FALSE)
ParseInt(s) ==
  LET neg == s # <<>> /\ Head(s) = "-"
      body == IF neg THEN Tail(s) ELSE s
      ok == body # <<>> /\ \A k \in 1..Len(body) : IsDigit(body[k])
  IN  [ok |-> ok,
       val |-> IF ~ok THEN 0
               ELSE IF neg THEN 0 - DecimalValue(body) ELSE DecimalValue(body)]

\* the test written as s == sub
ContainsWhole(s, sub) == s = sub

\* the test written as sub.lower() in s.lower()
UpperCase == <<"A", "B", "C", "D", "E", "F", "G", "H", "I", "J", "K", "L", "M",
               "N", "O", "P", "Q", "R", "S", "T", "U", "V", "W", "X", "Y", "Z">>
LowerCase == <<"a", "b", "c", "d", "e", "f", "g", "h", "i", "j", "k", "l", "m",
               "n", "o", "p", "q", "r", "s", "t", "u", "v", "w", "x", "y", "z">>
Lower(c) ==
  IF \E n \in 1..Len(UpperCase) : UpperCase[n] = c
    THEN LowerCase[CHOOSE n \in 1..Len(UpperCase) : UpperCase[n] = c]
    ELSE c
ContainsAnyCase(s, sub) ==
  \E k \in 0..(Len(s) - Len(sub)) :
     \A j \in 1..Len(sub) : Lower(s[k + j]) = Lower(sub[j])

\* sub in s, for strings
Contains(s, sub) ==
  \E k \in 0..(Len(s) - Len(sub)) : SubSeq(s, k + 1, k + Len(sub)) = sub

-----------------------------------------------------------------------------
(* The option lists of the question units *)

\* step_1, lines 93-97: options
step_1_options ==
  << <<"V","e","r","y"," ","f","a","m","i","l","i","a","r"," ","-"," ","I"," ","b","u","i","l","t"," ","i","t">>,
     <<"S","o","m","e","w","h","a","t"," ","f","a","m","i","l","i","a","r"," ","-"," ","I","'","v","e"," ","r","e","v","i","e","w","e","d"," ","t","h","e"," ","c","o","d","e">>,
     <<"N","o","t"," ","f","a","m","i","l","i","a","r"," ","-"," ","I","'","m"," ","n","e","w"," ","t","o"," ","t","h","i","s"," ","p","r","o","j","e","c","t">> >>

\* step_2, lines 121-126: options
step_2_options ==
  << <<"F","a","s","t","A","P","I"," ","(","P","y","t","h","o","n",")"," ","-"," ","H","i","g","h"," ","p","e","r","f","o","r","m","a","n","c","e",","," ","a","u","t","o","m","a","t","i","c"," ","A","P","I"," ","d","o","c","s">>,
     <<"F","l","a","s","k"," ","(","P","y","t","h","o","n",")"," ","-"," ","L","i","g","h","t","w","e","i","g","h","t",","," ","f","l","e","x","i","b","l","e",","," ","g","r","e","a","t"," ","f","o","r"," ","M","V","P","s">>,
     <<"N","o","d","e",".","j","s"," ","(","E","x","p","r","e","s","s",")"," ","-"," ","J","a","v","a","S","c","r","i","p","t"," ","f","u","l","l","-","s","t","a","c","k",","," ","f","a","m","i","l","i","a","r"," ","s","y","n","t","a","x">>,
     <<"D","j","a","n","g","o"," ","(","P","y","t","h","o","n",")"," ","-"," ","F","u","l","l","-","f","e","a","t","u","r","e","d",","," ","b","u","i","l","t","-","i","n"," ","a","d","m","i","n",","," ","O","R","M">> >>

\* step_2, lines 136-140: exp_options
exp_options ==
  << <<"E","x","p","e","r","t"," ","-"," ","I","'","v","e"," ","b","u","i","l","t"," ","p","r","o","d","u","c","t","i","o","n"," ","a","p","p","l","i","c","a","t","i","o","n","s">>,
     <<"I","n","t","e","r","m","e","d","i","a","t","e"," ","-"," ","I","'","v","e"," ","b","u","i","l","t"," ","s","o","m","e"," ","p","r","o","j","e","c","t","s">>,
     <<"B","e","g","i","n","n","e","r"," ","-"," ","I","'","m"," ","l","e","a","r","n","i","n","g"," ","o","r"," ","n","e","w"," ","t","o"," ","i","t">> >>

\* step_3, lines 159-164: llm_options
llm_options ==
  << <<"M","i","s","t","r","a","l"," ","7","B"," ","(","L","o","c","a","l",")"," ","-"," ","P","r","i","v","a","c","y","-","f","o","c","u","s","e","d",","," ","n","o"," ","A","P","I"," ","c","o","s","t","s">>,
     <<"O","p","e","n","A","I"," ","G","P","T"," ","(","A","P","I",")"," ","-"," ","P","o","w","e","r","f","u","l",","," ","e","a","s","y"," ","t","o"," ","i","n","t","e","g","r","a","t","e">>,
     <<"A","n","t","h","r","o","p","i","c"," ","C","l","a","u","d","e"," ","(","A","P","I",")"," ","-"," ","S","t","r","o","n","g"," ","r","e","a","s","o","n","i","n","g",","," ","s","a","f","e","t","y","-","f","o","c","u","s","e","d">>,
     <<"H","u","g","g","i","n","g"," ","F","a","c","e"," ","M","o","d","e","l","s"," ","-"," ","O","p","e","n"," ","s","o","u","r","c","e",","," ","c","u","s","t","o","m","i","z","a","b","l","e">> >>

\* step_3, lines 170-175: vector_options
vector_options ==
  << <<"F","a","i","s","s"," ","(","F","a","c","e","b","o","o","k",")"," ","-"," ","F","a","s","t",","," ","l","o","c","a","l",","," ","g","o","o","d"," ","f","o","r"," ","p","r","o","t","o","t","y","p","e","s">>,
     <<"P","i","n","e","c","o","n","e"," ","-"," ","M","a","n","a","g","e","d",","," ","s","c","a","l","a","b","l","e",","," ","e","a","s","y"," ","t","o"," ","u","s","e">>,
     <<"W","e","a","v","i","a","t","e"," ","-"," ","O","p","e","n"," ","s","o","u","r","c","e",","," ","G","r","a","p","h","Q","L"," ","A","P","I">>,
     <<"C","h","r","o","m","a"," ","-"," ","S","i","m","p","l","e",","," ","l","o","c","a","l","-","f","i","r","s","t",","," ","P","y","t","h","o","n","-","f","r","i","e","n","d","l","y">> >>

\* step_4, lines 202-207: data_options
data_options ==
  << <<"I","n","s","u","r","a","n","c","e"," ","c","o","m","p","a","n","y"," ","A","P","I","s"," ","-"," ","R","e","a","l","-","t","i","m","e"," ","p","o","l","i","c","y"," ","d","a","t","a">>,
     <<"S","t","a","t","i","c"," ","d","a","t","a","s","e","t","s"," ","-"," ","C","S","V","/","J","S","O","N"," ","f","i","l","e","s"," ","w","i","t","h"," ","p","o","l","i","c","y"," ","i","n","f","o">>,
     <<"M","a","n","u","a","l"," ","c","u","r","a","t","i","o","n"," ","-"," ","B","u","i","l","d"," ","y","o","u","r"," ","o","w","n"," ","p","o","l","i","c","y"," ","d","a","t","a","b","a","s","e">>,
     <<"T","h","i","r","d","-","p","a","r","t","y"," ","s","e","r","v","i","c","e","s"," ","-"," ","I","n","s","u","r","a","n","c","e"," ","a","g","g","r","e","g","a","t","o","r"," ","A","P","I","s">> >>

\* step_4, lines 213-217: complexity_options
complexity_options ==
  << <<"S","i","m","p","l","e"," ","-"," ","B","a","s","i","c"," ","p","l","a","n","s"," ","w","i","t","h"," ","p","r","e","m","i","u","m"," ","r","a","n","g","e","s">>,
     <<"M","o","d","e","r","a","t","e"," ","-"," ","M","u","l","t","i","p","l","e"," ","c","o","v","e","r","a","g","e"," ","t","y","p","e","s"," ","a","n","d"," ","t","i","e","r","s">>,
     <<"C","o","m","p","l","e","x"," ","-"," ","D","e","t","a","i","l","e","d"," ","u","n","d","e","r","w","r","i","t","i","n","g"," ","a","n","d"," ","c","a","l","c","u","l","a","t","i","o","n","s">> >>

\* step_5, lines 243-247: api_options
api_options ==
  << <<"R","E","S","T"," ","-"," ","S","i","m","p","l","e",","," ","w","i","d","e","l","y"," ","s","u","p","p","o","r","t","e","d">>,
     <<"G","r","a","p","h","Q","L"," ","-"," ","F","l","e","x","i","b","l","e"," ","q","u","e","r","i","e","s",","," ","s","i","n","g","l","e"," ","e","n","d","p","o","i","n","t">>,
     <<"F","a","s","t","A","P","I","/","O","p","e","n","A","P","I"," ","-"," ","A","u","t","o","-","g","e","n","e","r","a","t","e","d"," ","d","o","c","s",","," ","t","y","p","e"," ","s","a","f","e","t","y">> >>

\* step_5, lines 253-257: realtime_options
realtime_options ==
  << <<"Y","e","s"," ","-"," ","W","e","b","S","o","c","k","e","t"," ","f","o","r"," ","l","i","v","e"," ","c","h","a","t">>,
     <<"Y","e","s"," ","-"," ","S","e","r","v","e","r","-","s","e","n","t"," ","e","v","e","n","t","s"," ","f","o","r"," ","u","p","d","a","t","e","s">>,
     <<"N","o"," ","-"," ","S","t","a","n","d","a","r","d"," ","H","T","T","P"," ","r","e","q","u","e","s","t","s"," ","a","r","e"," ","f","i","n","e">> >>

\* step_6, lines 277-282: auth_options
auth_options ==
  << <<"N","o","n","e"," ","-"," ","A","n","o","n","y","m","o","u","s"," ","q","u","o","t","e","s"," ","(","s","i","m","p","l","e","s","t"," ","s","t","a","r","t",")">>,
     <<"B","a","s","i","c"," ","-"," ","E","m","a","i","l","/","p","a","s","s","w","o","r","d"," ","r","e","g","i","s","t","r","a","t","i","o","n">>,
     <<"O","A","u","t","h"," ","-"," ","G","o","o","g","l","e","/","F","a","c","e","b","o","o","k"," ","l","o","g","i","n">>,
     <<"E","n","t","e","r","p","r","i","s","e"," ","-"," ","S","A","M","L","/","L","D","A","P"," ","i","n","t","e","g","r","a","t","i","o","n">> >>

\* step_6, lines 288-292: privacy_options
privacy_options ==
  << <<"L","o","w"," ","-"," ","G","e","n","e","r","a","l"," ","h","e","a","l","t","h"," ","q","u","e","s","t","i","o","n","s"," ","o","n","l","y">>,
     <<"M","e","d","i","u","m"," ","-"," ","S","o","m","e"," ","m","e","d","i","c","a","l"," ","h","i","s","t","o","r","y">>,
     <<"H","i","g","h"," ","-"," ","D","e","t","a","i","l","e","d"," ","m","e","d","i","c","a","l"," ","r","e","c","o","r","d","s"," ","(","H","I","P","A","A"," ","c","o","m","p","l","i","a","n","c","e"," ","n","e","e","d","e","d",")">> >>

\* step_7, lines 312-317: deploy_options
deploy_options ==
  << <<"L","o","c","a","l"," ","d","e","v","e","l","o","p","m","e","n","t"," ","-"," ","D","o","c","k","e","r"," ","C","o","m","p","o","s","e">>,
     <<"C","l","o","u","d"," ","p","l","a","t","f","o","r","m"," ","-"," ","A","W","S","/","G","C","P","/","A","z","u","r","e">>,
     <<"P","a","a","S"," ","s","o","l","u","t","i","o","n"," ","-"," ","H","e","r","o","k","u","/","R","a","i","l","w","a","y","/","R","e","n","d","e","r">>,
     <<"S","e","r","v","e","r","l","e","s","s"," ","-"," ","A","W","S"," ","L","a","m","b","d","a","/","V","e","r","c","e","l"," ","F","u","n","c","t","i","o","n","s">> >>

\* step_7, lines 323-327: scale_options
scale_options ==
  << <<"S","m","a","l","l"," ","-"," ","<","1","0","0"," ","u","s","e","r","s","/","d","a","y">>,
     <<"M","e","d","i","u","m"," ","-"," ","1","0","0","-","1","0","0","0"," ","u","s","e","r","s","/","d","a","y">>,
     <<"L","a","r","g","e"," ","-"," ","1","0","0","0","+"," ","u","s","e","r","s","/","d","a","y">> >>

\* step_8, lines 352-357: comm_options
comm_options ==
  << <<"A","x","i","o","s"," ","(","a","l","r","e","a","d","y"," ","u","s","e","d",")"," ","-"," ","H","T","T","P"," ","c","l","i","e","n","t"," ","l","i","b","r","a","r","y">>,
     <<"F","e","t","c","h"," ","A","P","I"," ","-"," ","N","a","t","i","v","e"," ","b","r","o","w","s","e","r"," ","A","P","I">>,
     <<"T","a","n","S","t","a","c","k"," ","Q","u","e","r","y"," ","-"," ","A","d","v","a","n","c","e","d"," ","c","a","c","h","i","n","g"," ","a","n","d"," ","s","y","n","c">>,
     <<"C","u","s","t","o","m"," ","w","r","a","p","p","e","r"," ","-"," ","T","a","i","l","o","r","e","d"," ","t","o"," ","y","o","u","r"," ","n","e","e","d","s">> >>

\* step_8, lines 363-367: error_options
error_options ==
  << <<"B","a","s","i","c"," ","-"," ","S","i","m","p","l","e"," ","t","r","y","/","c","a","t","c","h"," ","b","l","o","c","k","s">>,
     <<"I","n","t","e","r","m","e","d","i","a","t","e"," ","-"," ","U","s","e","r","-","f","r","i","e","n","d","l","y"," ","e","r","r","o","r"," ","m","e","s","s","a","g","e","s">>,
     <<"A","d","v","a","n","c","e","d"," ","-"," ","R","e","t","r","y"," ","l","o","g","i","c",","," ","f","a","l","l","b","a","c","k","s",","," ","m","o","n","i","t","o","r","i","n","g">> >>

\* run, lines 668-668: continue_options
continue_options ==
  << <<"Y","e","s",","," ","c","o","n","t","i","n","u","e">>,
     <<"N","o",","," ","l","e","t"," ","m","e"," ","r","e","v","i","e","w"," ","t","h","i","s"," ","s","t","e","p">> >>

-----------------------------------------------------------------------------
(* ask_question: the prompt loop, one input() at a time *)

NoCall == [prompt |-> "none"]

\* the frame on entry: the menu is printed and the loop blocks on its first read
AskCall(options, allow_custom) ==
  [options |-> options, allow_custom |-> allow_custom,
   prompt |-> IF options # <<>> THEN "choice" ELSE "answer",
   returned |-> None]

\* the range test written as 1 <= choice < len(options)
AskChoiceShort(f, line) ==
  LET response == Strip(line)
      parsed == ParseInt(response)
      choice == parsed.val
  IN  IF ~parsed.ok
        THEN f
      ELSE IF 1 <= choice /\ choice < Len(f.options)
        THEN [f EXCEPT !.prompt = "returned", !.returned = Str(f.options[choice])]
      ELSE IF f.allow_custom /\ choice = Len(f.options) + 1
        THEN [f EXCEPT !.prompt = "custom"]
      ELSE f

\* the read at "Enter your choice (number): " and what follows it (lines 56-71)
AskChoice(f, line) ==
  LET response == Strip(line)
      parsed == ParseInt(response)
      choice == parsed.val
  IN  IF ~parsed.ok
        THEN f   \* ValueError: "Please enter a valid number."
      ELSE IF 1 <= choice /\ choice <= Len(f.options)
        THEN [f EXCEPT !.prompt = "returned", !.returned = Str(f.options[choice])]
      ELSE IF f.allow_custom /\ choice = Len(f.options) + 1
        THEN [f EXCEPT !.prompt = "custom"]
      ELSE f   \* "Invalid choice. Please try again."

\* the read at "Please specify: " (lines 64-67); an empty answer falls out of
\* the if and the while loop starts over at the numbered choice
AskCustom(f, line) ==
  LET custom == Strip(line)
  IN  IF custom # <<>>
        THEN [f EXCEPT !.prompt = "returned", !.returned = Str(custom)]
      ELSE [f EXCEPT !.prompt = "choice"]

\* the read at "Your answer: " when there are no options (lines 73-76)
AskAnswer(f, line) ==
  LET response == Strip(line)
  IN  IF response # <<>>
        THEN [f EXCEPT !.prompt = "returned", !.returned = Str(response)]
      ELSE f   \* "Please provide an answer."

\* one iteration of the while loop on the line the operator typed
AskStep(f, line) ==
  IF f.prompt = "choice" THEN AskChoice(f, line)
  ELSE IF f.prompt = "custom" THEN AskCustom(f, line)
  ELSE AskAnswer(f, line)

Blocked(f) == f.prompt \in {"choice", "custom", "answer"}

-----------------------------------------------------------------------------
(* Operator input *)

\* the longest line the operator types at a stand-alone ask_question
MaxLineLen == 2

\* in a run the operator picks among the first MaxChoice options of a step's
\* question (the continue question is unrestricted)
MaxChoice == 1

Chars == {" ", "-", "0", "1", "2", "3", "4", "5", "6", "N", "o", "n"}

Lines == UNION {[1..n -> Chars] : n \in 0..MaxLineLen}

\* the lines typed during a run
Typed ==
  { <<>>, <<" ">>, <<"0">>, <<"1">>, <<"2">>, <<"3">>, <<" ", "1">>,
    <<"N", "o">>, <<"n", "o">> }

RunLines(f, restricted) ==
  {l \in Typed :
     LET p == ParseInt(Strip(l))
     IN  ~(restricted /\ f.prompt = "choice" /\ p.ok
           /\ p.val > MaxChoice /\ p.val <= Len(f.options) + 1)}

-----------------------------------------------------------------------------
(* __init__ and the steps' writes to the session record *)

InitialSession ==
  Dict([frontend_tech_stack |-> None,
        backend_framework |-> None,
        llm_requirements |-> None,
        data_format |-> None,
        api_design |-> None,
        auth_requirements |-> None,
        deployment_target |-> None,
        communication_method |-> None,
        current_step |-> IntVal(1)])

steps ==
  << "step_1_frontend_analysis", "step_2_backend_framework",
     "step_3_llm_integration", "step_4_data_structure", "step_5_api_design",
     "step_6_authentication_security", "step_7_deployment_scalability",
     "step_8_communication_method" >>

\* the option lists of each step's ask_question calls, in order
StepQuestions ==
  << <<step_1_options>>,
     <<step_2_options, exp_options>>,
     <<llm_options, vector_options>>,
     <<data_options, complexity_options>>,
     <<api_options, realtime_options>>,
     <<auth_options, privacy_options>>,
     <<deploy_options, scale_options>>,
     <<comm_options, error_options>> >>

step_1_frontend_analysis(sd, familiarity) ==
  SetItem(sd, "frontend_tech_stack",
          Dict([framework |-> Str(<<"R","e","a","c","t"," ","+"," ","V","i","t","e">>),
                styling |-> Str(<<"T","a","i","l","w","i","n","d"," ","C","S","S">>),
                familiarity |-> familiarity]))

\* step 2 writes twice: the framework right after the first question ...
step_2_framework_choice(sd, framework_choice) ==
  SetItem(sd, "backend_framework", framework_choice)

\* ... and the experience level after the second
step_2_backend_framework(sd, experience) ==
  SetItem(sd, "backend_framework_experience", experience)

\* the dict written under keys the plan does not read
step_3_other_keys(sd, llm_choice, vector_choice) ==
  SetItem(sd, "llm_requirements",
          Dict([llm |-> llm_choice, vector |-> vector_choice]))

step_3_llm_integration(sd, llm_choice, vector_choice) ==
  SetItem(sd, "llm_requirements",
          Dict([llm_choice |-> llm_choice, vector_db |-> vector_choice]))

\* step 4 storing its answers under the field of step 3 as well
step_4_over_llm_requirements(sd, data_source, complexity) ==
  LET d == Dict([source |-> data_source, complexity |-> complexity])
  IN  SetItem(SetItem(sd, "data_format", d), "llm_requirements", d)

step_4_data_structure(sd, data_source, complexity) ==
  SetItem(sd, "data_format",
          Dict([source |-> data_source, complexity |-> complexity]))

\* step 5 storing its answers under the key of step 6
step_5_in_auth_requirements(sd, api_style, realtime) ==
  SetItem(sd, "auth_requirements",
          Dict([style |-> api_style, realtime |-> realtime]))

step_5_api_design(sd, api_style, realtime) ==
  SetItem(sd, "api_design", Dict([style |-> api_style, realtime |-> realtime]))

step_6_authentication_security(sd, auth_choice, privacy_level) ==
  SetItem(sd, "auth_requirements",
          Dict([auth_type |-> auth_choice, privacy_level |-> privacy_level]))

step_7_deployment_scalability(sd, deployment, scale) ==
  SetItem(sd, "deployment_target",
          Dict([platform |-> deployment, scale |-> scale]))

step_8_communication_method(sd, communication, error_handling) ==
  SetItem(sd, "communication_method",
          Dict([client |-> communication, error_handling |-> error_handling]))

\* the record after step k's first question is answered
AfterFirstAnswer(k, sd, answer) ==
  IF k = 1 THEN step_1_frontend_analysis(sd, answer)
  ELSE IF k = 2 THEN step_2_framework_choice(sd, answer)
  ELSE sd

\* the record after step k's second question is answered
AfterSecondAnswer(k, sd, a, b) ==
  IF k = 2 THEN step_2_backend_framework(sd, b)
  ELSE IF k = 3 THEN step_3_llm_integration(sd, a, b)
  ELSE IF k = 4 THEN step_4_data_structure(sd, a, b)
  ELSE IF k = 5 THEN step_5_api_design(sd, a, b)
  ELSE IF k = 6 THEN step_6_authentication_security(sd, a, b)
  ELSE IF k = 7 THEN step_7_deployment_scalability(sd, a, b)
  ELSE step_8_communication_method(sd, a, b)

-----------------------------------------------------------------------------
(* generate_implementation_plan and generate_next_steps *)

NoException == "none"

NotSpecified == Str(<<"N","o","t"," ","s","p","e","c","i","f","i","e","d">>)

\* what an f-string prints for a value
Format(v) == IF IsStr(v) THEN v.chars ELSE <<"N","o","n","e">>

\* the nested fields the plan prints, in the order of lines 390-412
PlanSections ==
  << <<"llm_requirements", "llm_choice", "vector_db">>,
     <<"data_format", "source", "complexity">>,
     <<"api_design", "style", "realtime">>,
     <<"auth_requirements", "auth_type", "privacy_level">>,
     <<"deployment_target", "platform", "scale">> >>

\* sections n.. of the plan: info = session_data.get(key, {}) and two
\* info.get(..., "Not specified"); a value without .get raises AttributeError
RECURSIVE RenderSections(_, _)
RenderSections(sd, n) ==
  IF n > Len(PlanSections) THEN [printed |-> <<>>, raised |-> NoException]
  ELSE LET sec == PlanSections[n]
           info == Get(sd, sec[1], Dict(<<>>))
       IN  IF ~IsDict(info) THEN [printed |-> <<>>, raised |-> "AttributeError"]
           ELSE LET rest == RenderSections(sd, n + 1)
                IN  [printed |-> << Format(Get(info, sec[2], NotSpecified)),
                                    Format(Get(info, sec[3], NotSpecified)) >>
                                 \o rest.printed,
                     raised |-> rest.raised]

\* generate_next_steps: the framework-specific instructions that are printed
generate_next_steps(sd) ==
  LET framework == Get(sd, "backend_framework", Str(<<>>))
  IN  IF ~IsStr(framework) THEN [printed |-> <<>>, raised |-> "TypeError"]
      ELSE [printed |->
              IF Contains(framework.chars, <<"F","a","s","t","A","P","I">>)
                THEN << <<"F","a","s","t","A","P","I">> >>
              ELSE IF Contains(framework.chars, <<"F","l","a","s","k">>)
                THEN << <<"F","l","a","s","k">> >>
              ELSE IF Contains(framework.chars, <<"N","o","d","e",".","j","s">>)
                THEN << <<"N","o","d","e",".","j","s">> >>
              ELSE <<>>,
            raised |-> NoException]

generate_implementation_plan(sd) ==
  LET framework == Get(sd, "backend_framework", NotSpecified)
      body == RenderSections(sd, 1)
      next == IF body.raised = NoException THEN generate_next_steps(sd)
              ELSE [printed |-> <<>>, raised |-> body.raised]
  IN  [printed |-> <<Format(framework)>> \o body.printed \o next.printed,
       raised |-> next.raised]

NotRendered == [printed |-> <<>>, raised |-> "not rendered"]

-----------------------------------------------------------------------------
(* save_session *)

\* json.dump's encoding of a value
RECURSIVE ToJson(_)
ToJson(v) ==
  IF v.type = "NoneType" THEN [json |-> "null"]
  ELSE IF v.type = "str" THEN [json |-> "string", chars |-> v.chars]
  ELSE IF v.type = "int" THEN [json |-> "number", n |-> v.n]
  ELSE [json |-> "object",
        members |-> [k \in DOMAIN v.items |-> ToJson(v.items[k])]]

NoFile == [json |-> "no file"]

\* what can go wrong with the write: nothing, or open() fails (OSError)
WriteFaults == {"none", "open"}

\* the file after a write that was cut short
Incomplete == [json |-> "incomplete"]
\* what can happen to a call of save_session when the operator may interrupt it
SaveFaults == WriteFaults \cup {"interrupt"}

\* save_session without its try/except: the failure of open() leaves the call
save_session_uncaught(sd, old, fault) ==
  [file |-> IF fault = "none" THEN ToJson(sd)
            ELSE IF fault = "interrupt" THEN Incomplete ELSE old,
   said |-> IF fault = "none" THEN "Session saved" ELSE "",
   raised |-> IF fault = "none" THEN NoException
              ELSE IF fault = "interrupt" THEN "KeyboardInterrupt" ELSE "OSError"]

\* the try/except of save_session: the file afterwards, the message printed
\* and the exception that leaves the call; a KeyboardInterrupt while the file is
\* written ("interrupt") is no Exception: it passes the except clause and leaves
\* the file with whatever part of the text had been written
save_session(sd, old, fault) ==
  [file |-> IF fault = "none" THEN ToJson(sd)
            ELSE IF fault = "interrupt" THEN Incomplete ELSE old,
   said |-> IF fault = "none" THEN "Session saved"
            ELSE IF fault = "interrupt" THEN "" ELSE "Could not save session",
   raised |-> IF fault = "interrupt" THEN "KeyboardInterrupt" ELSE NoException]

-----------------------------------------------------------------------------
(* run: the step sequencer *)

\* Exception subclasses this program can meet; KeyboardInterrupt is not one
IsException(exc) == exc \in {"EOFError", "OSError", "AttributeError", "TypeError"}

\* run without the per-step "except KeyboardInterrupt" clause
HandlerWithoutPause(where, exc) ==
  IF where = "step" /\ IsException(exc) THEN "error"
  ELSE IF exc = "KeyboardInterrupt" THEN "goodbye"
  ELSE "escape"

\* run without the per-step "except Exception" clause
HandlerWithoutError(where, exc) ==
  IF where = "step" /\ exc = "KeyboardInterrupt" THEN "pause"
  ELSE IF exc = "KeyboardInterrupt" THEN "goodbye"
  ELSE "escape"

\* which except clause of run takes an exception raised at `where`:
\* "step" is inside the per-step try (lines 661-674), "run" only inside the
\* outer try (lines 646-690, and the per-step handlers themselves)
Handler(where, exc) ==
  IF where = "step" /\ exc = "KeyboardInterrupt" THEN "pause"
  ELSE IF where = "step" /\ IsException(exc) THEN "error"
  ELSE IF exc = "KeyboardInterrupt" THEN "goodbye"
  ELSE "escape"

\* the end of run through the except clause h (without the clause's save)
EndBy(h, exc) ==
  /\ pc' = "done"
  /\ ask' = NoCall
  /\ outcome' = (IF h = "pause" THEN "paused"
                 ELSE IF h = "error" THEN "error"
                 ELSE IF h = "goodbye" THEN "goodbye"
                 ELSE "crashed")
  /\ errorStep' = (IF h = "error" THEN i ELSE errorStep)
  /\ escaped' = (IF h = "escape" THEN exc ELSE escaped)

\* self.save_session() with no return after it: run goes on from where it was
SaveAndGoOn(where, result, fault) ==
  LET r == save_session(session_data, file, fault)
  IN  /\ file' = r.file
      /\ saves' = Append(saves, [fault |-> fault, said |-> r.said])
      /\ pc' = pc
      /\ ask' = (IF pc = "continue" THEN AskCall(continue_options, TRUE) ELSE ask)
      /\ UNCHANGED << outcome, errorStep, escaped >>

\* self.save_session() called at `where`, the run ending as `result` after it
SaveAndEnd(where, result, fault) ==
  LET r == save_session(session_data, file, fault)
  IN  /\ file' = r.file
      /\ saves' = Append(saves, [fault |-> fault, said |-> r.said])
      /\ IF r.raised = NoException
           THEN /\ pc' = "done"
                /\ ask' = NoCall
                /\ outcome' = result
                /\ UNCHANGED << errorStep, escaped >>
           ELSE EndBy(Handler(where, r.raised), r.raised)

\* the step after the one meant is called (the list indexed from 0 by a
\* 1-based index)
CallStepShifted(k) ==
  LET n == IF k < Len(steps) THEN k + 1 ELSE k
  IN  /\ pc' = "step"
      /\ i' = n
      /\ at' = "q1"
      /\ ask' = AskCall(StepQuestions[n][1], TRUE)
      /\ stepsRun' = Append(stepsRun, n)

\* the call of step k: its banner is printed and it blocks on its first question
CallStep(k) ==
  /\ pc' = "step"
  /\ i' = k
  /\ at' = "q1"
  /\ ask' = AskCall(StepQuestions[k][1], TRUE)
  /\ stepsRun' = Append(stepsRun, k)

\* display_welcome, then the first step is called
DisplayWelcome ==
  /\ pc = "welcome"
  /\ CallStep(1)
  /\ UNCHANGED << session_data, first, file, saves, plan, outcome, errorStep,
                  escaped, raised, answered >>

\* the operator types a line at a question of step i
StepInput ==
  /\ pc = "step"
  /\ at \in {"q1", "q2"}
  /\ \E line \in RunLines(ask, TRUE) :
       LET f == AskStep(ask, line)
       IN  IF f.returned = None
             THEN /\ ask' = f
                  /\ UNCHANGED << session_data, at, first >>
           ELSE IF at = "q1"
             THEN /\ session_data' = AfterFirstAnswer(i, session_data, f.returned)
                  /\ first' = f.returned
                  /\ IF Len(StepQuestions[i]) > 1
                       THEN /\ at' = "q2"
                            /\ ask' = AskCall(StepQuestions[i][2], TRUE)
                       ELSE /\ at' = "tail"
                            /\ ask' = NoCall
           ELSE /\ session_data' = AfterSecondAnswer(i, session_data, first, f.returned)
                /\ at' = "tail"
                /\ ask' = NoCall
                /\ UNCHANGED first
  /\ answered' = None
  /\ UNCHANGED << pc, i, file, saves, plan, outcome, errorStep, escaped, raised,
                  stepsRun >>

\* current_step left at the step that has just returned
SetCurrentStepStale(sd, k) == SetItem(sd, "current_step", IntVal(k))

\* self.session_data["current_step"] = i + 1 (line 663)
SetCurrentStep(sd, k) == SetItem(sd, "current_step", IntVal(k + 1))

\* step i prints its closing advice and returns; run sets current_step and,
\* except after the last step, asks the continue question (lines 663-670)
StepReturn ==
  /\ pc = "step"
  /\ at = "tail"
  /\ session_data' = SetCurrentStep(session_data, i)
  /\ first' = None
  /\ at' = ""
  /\ IF i < Len(steps)
       THEN /\ pc' = "continue"
            /\ ask' = AskCall(continue_options, TRUE)
       ELSE /\ pc' = "plan"
            /\ ask' = NoCall
  /\ UNCHANGED << i, file, saves, plan, outcome, errorStep, escaped, raised,
                  answered, stepsRun >>

\* the operator types a line at the continue question: on an answer with "No"
\* in it the session is saved and run returns, on any other the next step is called
ContinueInput ==
  /\ pc = "continue"
  /\ \E line \in RunLines(ask, FALSE) :
       LET f == AskStep(ask, line)
       IN  IF f.returned = None
             THEN /\ ask' = f
                  /\ UNCHANGED << pc, i, at, file, saves, outcome, errorStep,
                                  escaped, answered, stepsRun >>
           ELSE /\ answered' = f.returned
                /\ IF Contains(f.returned.chars, <<"N", "o">>)
                     THEN /\ \E fault \in WriteFaults :
                               SaveAndEnd("step", "declined", fault)
                          /\ UNCHANGED << i, at, stepsRun >>
                     ELSE /\ CallStep(i + 1)
                          /\ UNCHANGED << file, saves, outcome, errorStep, escaped >>
  /\ UNCHANGED << session_data, first, plan, raised >>

\* after the loop: the plan is printed, the session saved, the closing message printed
Finish ==
  /\ pc = "plan"
  /\ LET p == generate_implementation_plan(session_data)
     IN  /\ plan' = p
         /\ IF p.raised = NoException
              THEN \E fault \in WriteFaults : SaveAndEnd("run", "completed", fault)
              ELSE /\ EndBy(Handler("run", p.raised), p.raised)
                   /\ UNCHANGED << file, saves >>
  /\ UNCHANGED << session_data, i, at, first, raised, answered, stepsRun >>

\* where an exception raised now is raised from
Where == IF pc \in {"step", "continue"} THEN "step" ELSE "run"

\* the operator interrupts (KeyboardInterrupt): during the welcome, inside a
\* step, at the continue question, or while the plan is printed
Interrupt ==
  /\ pc \in {"welcome", "step", "continue", "plan"}
  /\ LET h == Handler(Where, "KeyboardInterrupt")
     IN  IF h = "pause"
           THEN \E fault \in WriteFaults : SaveAndEnd("run", "paused", fault)
         ELSE /\ EndBy(h, "KeyboardInterrupt")
              /\ UNCHANGED << file, saves >>
  /\ raised' = "KeyboardInterrupt"
  /\ answered' = None
  /\ UNCHANGED << session_data, i, at, first, plan, stepsRun >>

\* input() fails at a blocked read (EOFError: the input stream is closed)
Fault ==
  /\ pc \in {"step", "continue"}
  /\ Blocked(ask)
  /\ LET h == Handler(Where, "EOFError")
     IN  IF h = "pause"
           THEN \E fault \in WriteFaults : SaveAndEnd("run", "paused", fault)
         ELSE /\ EndBy(h, "EOFError")
              /\ UNCHANGED << file, saves >>
  /\ raised' = "EOFError"
  /\ answered' = None
  /\ UNCHANGED << session_data, i, at, first, plan, stepsRun >>

Init ==
  /\ session_data = InitialSession
  /\ pc = "welcome"
  /\ i = 0
  /\ at = ""
  /\ first = None
  /\ ask = NoCall
  /\ file = NoFile
  /\ saves = <<>>
  /\ plan = NotRendered
  /\ outcome = "running"
  /\ errorStep = 0
  /\ escaped = NoException
  /\ raised = NoException
  /\ answered = None
  /\ stepsRun = <<>>

Next ==
  \/ DisplayWelcome
  \/ StepInput
  \/ StepReturn
  \/ ContinueInput
  \/ Finish
  \/ Interrupt
  \/ Fault

Spec == Init /\ [][Next]_vars

-----------------------------------------------------------------------------
(* ask_question on its own: any of the program's option lists or none, with
   and without the custom answer, on every line of up to MaxLineLen characters *)

OptionLists ==
  UNION {{StepQuestions[k][n] : n \in 1..Len(StepQuestions[k])} : k \in 1..Len(steps)}
    \cup {continue_options}

InitAsk ==
  /\ pc = "ask_question"
  /\ ask \in {AskCall(o, c) : o \in OptionLists \cup {<<>>}, c \in BOOLEAN}
  /\ session_data = InitialSession
  /\ i = 0
  /\ at = ""
  /\ first = None
  /\ file = NoFile
  /\ saves = <<>>
  /\ plan = NotRendered
  /\ outcome = "running"
  /\ errorStep = 0
  /\ escaped = NoException
  /\ raised = NoException
  /\ answered = None
  /\ stepsRun = <<>>

\* the operator types a line at the prompt ask_question is blocked on
AskRead(line) ==
  /\ pc = "ask_question"
  /\ Blocked(ask)
  /\ ask' = AskStep(ask, line)
  /\ UNCHANGED << session_data, pc, i, at, first, file, saves, plan, outcome,
                  errorStep, escaped, raised, answered, stepsRun >>

NextAsk == \E line \in Lines : AskRead(line)

SpecAsk == InitAsk /\ [][NextAsk]_vars

-----------------------------------------------------------------------------
(* generate_implementation_plan on its own: the record __init__ builds, with
   the writes of any set of the steps applied (first options chosen) *)

\* the record after step k has asked its questions and written its fields
WithStep(sd, k) ==
  LET a == Str(StepQuestions[k][1][1])
  IN  IF Len(StepQuestions[k]) = 1 THEN AfterFirstAnswer(k, sd, a)
      ELSE AfterSecondAnswer(k, AfterFirstAnswer(k, sd, a), a,
                             Str(StepQuestions[k][2][1]))

RECURSIVE RecordWith(_, _)
RecordWith(S, k) ==
  IF k = 0 THEN InitialSession
  ELSE LET r == RecordWith(S, k - 1)
       IN  IF k \in S THEN WithStep(r, k) ELSE r

PlanRecords == {RecordWith(S, Len(steps)) : S \in SUBSET (1..Len(steps))}

InitPlan ==
  /\ pc = "generate_implementation_plan"
  /\ session_data \in PlanRecords
  /\ i = 0
  /\ at = ""
  /\ first = None
  /\ ask = NoCall
  /\ file = NoFile
  /\ saves = <<>>
  /\ plan = NotRendered
  /\ outcome = "running"
  /\ errorStep = 0
  /\ escaped = NoException
  /\ raised = NoException
  /\ answered = None
  /\ stepsRun = <<>>

\* the call: what it printed, and the exception that leaves it
RenderPlan ==
  /\ pc = "generate_implementation_plan"
  /\ plan' = generate_implementation_plan(session_data)
  /\ escaped' = plan'.raised
  /\ pc' = "rendered"
  /\ UNCHANGED << session_data, i, at, first, ask, file, saves, outcome,
                  errorStep, raised, answered, stepsRun >>

NextPlan == RenderPlan

SpecPlan == InitPlan /\ [][NextPlan]_vars

-----------------------------------------------------------------------------
(* run with an operator who may also interrupt while save_session writes *)

\* self.save_session() called at `where` and interrupted there. The per-step
\* handler, when it is the one that takes the KeyboardInterrupt, calls
\* save_session itself (line 678): `again` is what happens to that call
InterruptedSave(where, again) ==
  LET r == save_session(session_data, file, "interrupt")
      h == Handler(where, r.raised)
      call == [fault |-> "interrupt", said |-> r.said]
  IN  /\ raised' = r.raised
      /\ IF h = "pause"
           THEN LET r2 == save_session(session_data, r.file, again)
                IN  /\ file' = r2.file
                    /\ saves' = saves \o << call, [fault |-> again, said |-> r2.said] >>
                    /\ IF r2.raised = NoException
                         THEN /\ pc' = "done"
                              /\ ask' = NoCall
                              /\ outcome' = "paused"
                              /\ UNCHANGED << errorStep, escaped >>
                         ELSE EndBy(Handler("run", r2.raised), r2.raised)
           ELSE /\ file' = r.file
                /\ saves' = Append(saves, call)
                /\ EndBy(h, r.raised)

\* the continue question is answered with "No" in the answer and the save of
\* line 673, inside the per-step try, is interrupted
DeclineInterrupted ==
  /\ pc = "continue"
  /\ \E line \in RunLines(ask, FALSE) :
       LET f == AskStep(ask, line)
       IN  /\ f.returned # None
           /\ Contains(f.returned.chars, <<"N", "o">>)
           /\ answered' = f.returned
           /\ \E again \in SaveFaults : InterruptedSave("step", again)
  /\ UNCHANGED << session_data, i, at, first, plan, stepsRun >>

\* the operator interrupts at a step, and again while the handler saves (line 678)
PauseInterrupted ==
  /\ pc \in {"step", "continue"}
  /\ Handler(Where, "KeyboardInterrupt") = "pause"
  /\ InterruptedSave("run", "none")
  /\ answered' = None
  /\ UNCHANGED << session_data, i, at, first, plan, stepsRun >>

\* the plan is printed and the save after it (line 687) is interrupted
FinishInterrupted ==
  /\ pc = "plan"
  /\ LET p == generate_implementation_plan(session_data)
     IN  /\ p.raised = NoException
         /\ plan' = p
  /\ InterruptedSave("run", "none")
  /\ UNCHANGED << session_data, i, at, first, answered, stepsRun >>

NextInterruptible ==
  \/ Next
  \/ DeclineInterrupted
  \/ PauseInterrupted
  \/ FinishInterrupted

SpecInterruptible == Init /\ [][NextInterruptible]_vars

-----------------------------------------------------------------------------
(* Vocabulary of the properties *)

\* the session-record fields each step writes (lines 100, 129, 143, 179, 221,
\* 261, 296, 331, 371)
OwnedFields ==
  << {"frontend_tech_stack"},
     {"backend_framework", "backend_framework_experience"},
     {"llm_requirements"},
     {"data_format"},
     {"api_design"},
     {"auth_requirements"},
     {"deployment_target"},
     {"communication_method"} >>

FieldsOf(ks) == UNION {OwnedFields[k] : k \in ks}

AllFields == FieldsOf(1..Len(steps))

\* the fields of a record that hold an answer
Recorded(sd) ==
  {key \in AllFields : key \in DOMAIN sd.items /\ sd.items[key] # None}

\* the fields of a snapshot that hold an answer
RecordedInFile(j) ==
  {key \in AllFields : key \in DOMAIN j.members /\ j.members[key].json # "null"}

UpTo(n) == [k \in 1..n |-> k]

Ended == pc = "done"
Written == saves # <<>> /\ saves[Len(saves)].fault = "none"

\* the fields recorded when the run stands at step k, position p
RecordedAt(k, p) ==
  FieldsOf(1..(k - 1))
    \cup (IF p \in {"tail", ""} THEN OwnedFields[k]
          ELSE IF p = "q2" /\ k = 2 THEN {"backend_framework"}
          ELSE {})

\* the run stands, or ended, at an input read of step i: one of its questions
\* or the continue question after it
AtRead == at \in {"q1", "q2"} \/ (at = "" /\ i \in 1..(Len(steps) - 1))

\* the number of steps that have returned
CompletedSteps == IF i = 0 THEN 0 ELSE IF at = "" THEN i ELSE i - 1

-----------------------------------------------------------------------------
(* C1: a run that completes all 8 steps (every continue question answered so
   that the run goes on, no interruption, no fault) ends with every field of
   the session record non-null and current_step = 9, with the plan rendered
   after step 8, and with no "Not specified" placeholder in the plan. *)
C1_CompleteRun ==
  (Ended /\ CompletedSteps = Len(steps) /\ raised = NoException) =>
    /\ outcome = "completed"
    /\ stepsRun = UpTo(Len(steps))
    /\ \A key \in DOMAIN session_data.items : session_data.items[key] # None
    /\ AllFields \subseteq DOMAIN session_data.items
    /\ session_data.items["current_step"] = IntVal(9)
    /\ plan.raised = NoException
    /\ Len(plan.printed) >= 11
    /\ \A n \in 1..Len(plan.printed) : plan.printed[n] # NotSpecified.chars

C1_Witness ==
  /\ outcome = "completed"
  /\ Len(plan.printed) = 12
  /\ Written

(* C2: when the operator declines to continue after step k (1..7), the run
   stops at once: no later step is called, the fields of steps k+1..8 are
   null, the plan is not rendered, and save_session is called once with the
   record holding exactly the fields of steps 1..k; the file it writes holds
   exactly those fields (when open() fails the file is left as it was). *)
C2_Decline ==
  answered = Str(continue_options[2]) =>
    /\ Ended
    /\ outcome = "declined"
    /\ i \in 1..(Len(steps) - 1)
    /\ stepsRun = UpTo(i)
    /\ Recorded(session_data) = FieldsOf(1..i)
    /\ plan = NotRendered
    /\ Len(saves) = 1
    /\ IF Written
         THEN /\ file.json = "object"
              /\ DOMAIN file.members = DOMAIN session_data.items
              /\ RecordedInFile(file) = FieldsOf(1..i)
         ELSE file = NoFile

C2_Witness ==
  /\ answered = Str(continue_options[2])
  /\ outcome = "declined"
  /\ i = 3
  /\ Written
  /\ RecordedInFile(file) = FieldsOf(1..3)

(* C3: an operator interruption at any point of run, whichever handler
   catches it, ends with the session record persisted by save_session. *)
C3_InterruptAlwaysSaves ==
  raised = "KeyboardInterrupt" => Ended /\ saves # <<>>

(* C4: a cancellation while step k is blocked on an input read (a question of
   step k, or the continue question after it) writes a snapshot of the fields
   completed before it: those of steps 1..k-1 and what step k had recorded;
   no later step runs and no exception leaves run. *)
C4_CancelDuringStep ==
  (raised = "KeyboardInterrupt" /\ AtRead) =>
    /\ Ended
    /\ outcome = "paused"
    /\ i \in 1..Len(steps)
    /\ stepsRun = UpTo(i)
    /\ escaped = NoException
    /\ plan = NotRendered
    /\ Recorded(session_data) = RecordedAt(i, at)
    /\ Len(saves) = 1
    /\ IF Written
         THEN /\ file.json = "object"
              /\ DOMAIN file.members = DOMAIN session_data.items
              /\ RecordedInFile(file) = RecordedAt(i, at)
         ELSE file = NoFile

C4_Witness ==
  /\ raised = "KeyboardInterrupt"
  /\ outcome = "paused"
  /\ i = 2
  /\ at = "q2"
  /\ Written
  /\ RecordedInFile(file) = {"frontend_tech_stack", "backend_framework"}

(* C5: the steps that run are a prefix of 1, 2, ..., 8 in that order; a step
   starts only when the one before it has returned (the first one after the
   welcome), none is skipped or repeated; the plan is generated only after all
   8 have returned with no decline, interruption or fault. *)
C5_StepsInOrder ==
  /\ [](/\ Len(stepsRun) <= Len(steps)
        /\ stepsRun = UpTo(Len(stepsRun))
        /\ (plan # NotRendered =>
              /\ stepsRun = UpTo(Len(steps))
              /\ CompletedSteps = Len(steps)
              /\ outcome \notin {"declined", "paused", "error", "goodbye"}
              /\ errorStep = 0))
  /\ [][stepsRun' # stepsRun =>
          /\ stepsRun' = Append(stepsRun, Len(stepsRun) + 1)
          /\ CompletedSteps = Len(stepsRun)
          /\ pc \in {"welcome", "continue"}]_vars

C5_Witness ==
  /\ plan # NotRendered
  /\ stepsRun = UpTo(8)

(* C6: current_step is always the index of the next step to run: k while
   step k has not returned, k+1 once it has (9 after step 8); the same holds
   of every snapshot save_session writes. *)
C6_CurrentStep ==
  /\ session_data.items["current_step"] = IntVal(CompletedSteps + 1)
  /\ file # NoFile =>
       file.members["current_step"] = [json |-> "number", n |-> CompletedSteps + 1]

C6_Witness ==
  /\ raised = "KeyboardInterrupt"
  /\ i = 4
  /\ at = "q2"
  /\ file # NoFile
  /\ file.members["current_step"].n = 4

-----------------------------------------------------------------------------
(* ask_question with options and the custom answer allowed *)

C7_Case == ask.prompt # "none" /\ ask.options # <<>> /\ ask.allow_custom

(* C7 as stated: at every prompt of the call, a number c in 1..N returns
   options[c-1]; N+1 and then a non-empty string returns that string; 0, N+2,
   any other number out of range and non-numeric text return nothing and ask
   for the choice again. *)
C7_AsStated ==
  (C7_Case /\ Blocked(ask)) =>
    \A line \in Lines :
      LET N == Len(ask.options)
          p == ParseInt(Strip(line))
          after == AskStep(ask, line)
      IN  IF ask.prompt = "choice"
            THEN IF p.ok /\ p.val \in 1..N
                   THEN after.prompt = "returned"
                        /\ after.returned = Str(ask.options[p.val])
                 ELSE IF p.ok /\ p.val = N + 1
                   THEN after.prompt = "custom" /\ after.returned = None
                 ELSE after.prompt = "choice" /\ after.returned = None
          ELSE line # <<>> =>
                 after.prompt = "returned" /\ after.returned = Str(line)

(* C7, amended: as stated, except that the free text is returned with its
   surrounding whitespace stripped, and only when it is non-empty once
   stripped. *)
C7_ValidChoiceOnly ==
  (C7_Case /\ Blocked(ask)) =>
    \A line \in Lines :
      LET N == Len(ask.options)
          p == ParseInt(Strip(line))
          after == AskStep(ask, line)
      IN  IF ask.prompt = "choice"
            THEN IF p.ok /\ p.val \in 1..N
                   THEN after.prompt = "returned"
                        /\ after.returned = Str(ask.options[p.val])
                 ELSE IF p.ok /\ p.val = N + 1
                   THEN after.prompt = "custom" /\ after.returned = None
                 ELSE after.prompt = "choice" /\ after.returned = None
          ELSE Strip(line) # <<>> =>
                 after.prompt = "returned" /\ after.returned = Str(Strip(line))

C7_Witness ==
  /\ C7_Case
  /\ ask.prompt = "returned"
  /\ ask.returned = Str(<<"N", "o">>)
  /\ Len(ask.options) = 4

(* C8: after N+1 and then an empty or whitespace-only line at "Please
   specify", the free-text answer is asked for again. *)
C8_EmptyCustomAsksAgain ==
  [][\A line \in Lines :
       (C7_Case /\ ask.prompt = "custom" /\ Strip(line) = <<>> /\ AskRead(line))
         => ask'.prompt = "custom"]_vars

-----------------------------------------------------------------------------
(* C9: an exception other than the interruption raised while step k runs, or
   while its continue question is asked, is caught by the sequencer: the run
   ends, no later step is called, no plan is generated, save_session is not
   called, and no exception leaves run. *)
C9_StepFault ==
  raised = "EOFError" =>
    /\ Ended
    /\ outcome = "error"
    /\ errorStep = i
    /\ i \in 1..Len(steps)
    /\ stepsRun = UpTo(i)
    /\ plan = NotRendered
    /\ saves = <<>>
    /\ file = NoFile
    /\ escaped = NoException

C9_Witness ==
  /\ raised = "EOFError"
  /\ outcome = "error"
  /\ errorStep = 5
  /\ at = ""

(* C10: a failed write in save_session is reported as a warning and goes no
   further: on each path that saves (decline, interruption inside a step,
   completion) the run ends as after a successful write, a completed run still
   reaches its closing message, and the save leaves the session record as it
   was. *)
C10_SaveFailureContained ==
  /\ [](saves # <<>> =>
          /\ Ended
          /\ escaped = NoException
          /\ errorStep = 0
          /\ outcome \in {"declined", "paused", "completed"}
          /\ (plan # NotRendered => outcome = "completed")
          /\ saves[1].said = (IF Written THEN "Session saved"
                              ELSE "Could not save session"))
  /\ [][saves' # saves =>
          /\ session_data' = session_data
          /\ (pc = "plan" => outcome' = "completed")
          /\ (pc = "step" => outcome' = "paused")
          /\ (pc = "continue" => outcome' \in {"declined", "paused"})]_vars

C10_Witness ==
  /\ outcome = "completed"
  /\ saves # <<>>
  /\ ~Written
  /\ file = NoFile

-----------------------------------------------------------------------------
(* C11: generate_implementation_plan, on any session record, prints "Not
   specified" for every field of the record that is null (the framework and
   the two entries of each nested section) and raises nothing. *)
C11_PlaceholderForNull ==
  pc = "rendered" =>
    /\ plan.raised = NoException
    /\ escaped = NoException
    /\ Len(plan.printed) >= 1 + 2 * Len(PlanSections)
    /\ (session_data.items["backend_framework"] = None =>
          plan.printed[1] = NotSpecified.chars)
    /\ \A n \in 1..Len(PlanSections) :
         session_data.items[PlanSections[n][1]] = None =>
           /\ plan.printed[2 * n] = NotSpecified.chars
           /\ plan.printed[2 * n + 1] = NotSpecified.chars

-----------------------------------------------------------------------------
\* the fields of the record a step of the program has changed, added or removed
Changed ==
  {key \in (DOMAIN session_data.items) \cup (DOMAIN session_data'.items) :
     \/ key \notin DOMAIN session_data.items
     \/ key \notin DOMAIN session_data'.items
     \/ session_data'.items[key] # session_data.items[key]}

(* C12: a question of step k being answered changes only fields step k owns,
   and not current_step; only the return of a step to run changes
   current_step, and nothing else; every other operation (ask_question while
   it has not returned an answer, the continue question, the plan,
   save_session, the handlers) leaves the whole record as it is; no field is removed, and no field that holds a
   value becomes null again. *)
C12_Frame ==
  [][ /\ DOMAIN session_data.items \subseteq DOMAIN session_data'.items
      /\ \A key \in DOMAIN session_data.items :
           session_data.items[key] # None => session_data'.items[key] # None
      /\ IF pc = "step" /\ at \in {"q1", "q2"} THEN Changed \subseteq OwnedFields[i]
         ELSE IF pc = "step" /\ at = "tail" THEN Changed \subseteq {"current_step"}
         ELSE Changed = {}
      /\ at' = at => Changed = {}
    ]_vars

\* step 4 has written its field, beside the fields of the steps before it
C12_Witness ==
  /\ pc = "step"
  /\ i = 4
  /\ at = "tail"
  /\ Recorded(session_data) = FieldsOf(1..4)
  /\ session_data.items["current_step"] = IntVal(4)

-----------------------------------------------------------------------------
\* the text has a capital N directly followed by a small o somewhere in it
HasNo(s) == \E k \in 1..(Len(s) - 1) : s[k] = "N" /\ s[k + 1] = "o"

(* C13: the value the continue question after step k (1..7) returns decides
   alone: when it has "No" in it (case-sensitively), the session is saved and
   run returns with no further step called; for every other value, the
   lower-case custom answer "no" among them, step k+1 is called and nothing
   is saved. The continue question is never asked after step 8. *)
C13_StopExactlyOnNo ==
  /\ answered # None =>
       /\ stepsRun = UpTo(i)
       /\ IF HasNo(answered.chars)
            THEN /\ Ended
                 /\ outcome = "declined"
                 /\ i \in 1..(Len(steps) - 1)
                 /\ at = ""
                 /\ Len(saves) = 1
            ELSE /\ pc = "step"
                 /\ i \in 2..Len(steps)
                 /\ at = "q1"
                 /\ session_data.items["current_step"] = IntVal(i)
                 /\ saves = <<>>
  /\ pc = "continue" => i \in 1..(Len(steps) - 1)
  /\ i = Len(steps) /\ at = "" => pc \in {"plan", "done"} /\ answered = None

\* the custom answer "no" after step 1: step 2 is called
C13_Witness ==
  /\ answered = Str(<<"n", "o">>)
  /\ pc = "step"
  /\ i = 2
  /\ stepsRun = <<1, 2>>

-----------------------------------------------------------------------------
\* the value of current_step in the record
CurrentStep == session_data.items["current_step"].n

(* C14: in every reachable state the fields of the steps below current_step
   hold a value and the fields of the steps above it are null; of the fields
   of the step current_step itself, steps 3..8 hold none while a question of
   theirs is open, and step 2 holds backend_framework, and only that, at its
   second question. *)
C14_FieldsFollowCurrentStep ==
  /\ CurrentStep \in 1..(Len(steps) + 1)
  /\ FieldsOf(1..(CurrentStep - 1)) \subseteq Recorded(session_data)
  /\ Recorded(session_data) \cap FieldsOf((CurrentStep + 1)..Len(steps)) = {}
  /\ at \in {"q1", "q2"} =>
       /\ i = CurrentStep
       /\ i # 2 => Recorded(session_data) \cap OwnedFields[i] = {}
       /\ i = 2 /\ at = "q1" => Recorded(session_data) \cap OwnedFields[i] = {}
       /\ i = 2 /\ at = "q2" =>
            Recorded(session_data) \cap OwnedFields[i] = {"backend_framework"}

\* step 2 at its second question: its first field is written, current_step is 2
C14_Witness ==
  /\ pc = "step"
  /\ i = 2
  /\ at = "q2"
  /\ CurrentStep = 2
  /\ Recorded(session_data) = {"frontend_tech_stack", "backend_framework"}

-----------------------------------------------------------------------------
(* C15, as stated: in every run save_session is called at most once and
   nothing happens to the record after the call, so a snapshot that was
   written equals the record the run ends with. *)
C15_AsStated ==
  /\ Len(saves) <= 1
  /\ saves # <<>> => Ended /\ ~ENABLED NextInterruptible
  /\ Written => file = ToJson(session_data)

(* C15: save_session is called at most twice in a run, and a second time only
   by the per-step handler, when the operator has interrupted the call made
   after a continue question answered with "No"; a call that is not
   interrupted is the last one, the run takes no step after it, and the
   snapshot it has written equals the record the run ends with. *)
C15_SavedOnceUnlessInterrupted ==
  /\ Len(saves) <= 2
  /\ Len(saves) = 2 =>
       /\ saves[1].fault = "interrupt"
       /\ raised = "KeyboardInterrupt"
       /\ answered # None
       /\ HasNo(answered.chars)
  /\ saves # <<>> => Ended /\ ~ENABLED NextInterruptible
  /\ Written => file = ToJson(session_data)
  /\ file \in {NoFile, Incomplete, ToJson(session_data)}

\* declined after step 1, the save interrupted, the handler's save written
C15_Witness ==
  /\ Len(saves) = 2
  /\ Written
  /\ outcome = "paused"
  /\ i = 1
  /\ file = ToJson(session_data)

====
